---- MODULE Spec2Model ----
(***************************************************************************)
(* State-machine model of the widget dashboard (src/src/main.rs): the      *)
(* shared-memory buffer lifecycle of App::render, the Wayland event        *)
(* handlers that drive it, and the bounded telemetry histories.            *)
(*                                                                         *)
(* The dispatch loop of main() is single threaded and every handler runs   *)
(* to completion, so each handler is one action.  A handler is written as  *)
(* a composition of step operators over a record holding the whole state,  *)
(* in the order of the statements of the source.                           *)
(***************************************************************************)
EXTENDS Integers, Sequences, FiniteSets, TLC

VARIABLES
    shm,                    \* App.shm is Some
    surface,                \* App.surface is Some
    buffer_pool,            \* App.buffer_pool
    buffer_file,            \* App.buffer_file
    buffer_mmap,            \* App.buffer_mmap
    buffer_size,            \* App.buffer_size
    width,                  \* App.width
    height,                 \* App.height
    scale_factor,           \* App.scale_factor
    cpu_usage_points,       \* App.cpu_usage_points, front first
    read_bytes_points,      \* App.read_bytes_points, front first
    written_bytes_points,   \* App.written_bytes_points, front first
    tick,                   \* number of refresh_system calls made so far
    sampled,                \* number of render calls that have sampled
    allocs,                 \* number of backing regions installed so far
    live_pools,             \* wl_shm_pool objects created and not destroyed
    live_buffers,           \* wl_buffer objects created and not destroyed
    frame_callbacks,        \* frame callbacks registered and not yet fired
    inbox,                  \* Done events received and not yet dispatched
    awaiting,               \* regions committed with no frame-done since
    handed_off,             \* regions ever attached and committed
    attached,               \* what the last commit handed to the compositor
    status,                 \* "running", or "aborted" after a panic
    cycle,                  \* record of the last call of App::render
    harness,                \* a VecDeque under push_within_limit alone
    formatted               \* a byte count and what format_bytes makes of it

vars == <<shm, surface, buffer_pool, buffer_file, buffer_mmap, buffer_size,
          width, height, scale_factor, cpu_usage_points, read_bytes_points,
          written_bytes_points, tick, sampled, allocs, live_pools,
          live_buffers, frame_callbacks, inbox,
          awaiting, handed_off, attached, status, cycle, harness,
          formatted>>

-----------------------------------------------------------------------------
(* Program constants *)

MAX_CPU_USAGE_POINTS == 50
MAX_DISK_USAGE_POINTS == 150

(* Bounds of the model *)

\* refresh_system calls explored by Spec (the one of App::new included)
MaxTicks == 4
\* refresh_system calls explored by SteadySpec: past the longest history
MaxSteadyTicks == 153
\* a Configure event carries a width and a height of at least 1 with
\* width + height <= MaxDim + 1
MaxDim == 2
\* scale factors a Scale event carries: 1..MaxScale
MaxScale == 2
\* frame callbacks outstanding at once; every Configure event adds one for
\* good, so this is also the number of Configure events of a run
MaxCallbacks == 2
\* SteadySpec: frame callbacks outstanding at once
MaxSteadyCallbacks == 1
\* protocol objects alive are counted up to MaxLive, which stands for that
\* many or more
MaxLive == 2
\* BurstSpec: frame callbacks outstanding at once, and refresh_system calls
MaxBurstCallbacks == 3
MaxBurstTicks == 7
\* FormatSpec: the lowest digit of a byte count lies within MaxOffset of
\* one of the digits listed in GridInputs
MaxOffset == 2
\* HistSpec: capacities 1..MaxLimit, values 0..MaxValue, up to MaxPushes pushes
MaxLimit == 3
MaxValue == 1
MaxPushes == 5
\* HistSpec: the long run at capacity MAX_DISK_USAGE_POINTS
ScenarioPushes == 200

-----------------------------------------------------------------------------
(* Option values.  A record with a flag stands for Option<..>. *)

NoFile == [some |-> FALSE, id |-> 0, len |-> 0]
NoMmap == [some |-> FALSE, id |-> 0, len |-> 0, data |-> 0]
NoPool == [some |-> FALSE, id |-> 0, size |-> 0]
NoBuffer == [some |-> FALSE, region |-> 0, data |-> 0, width |-> 0,
             height |-> 0, stride |-> 0, scale |-> 0]
NoValue == [some |-> FALSE, v |-> 0]
SomeValue(x) == [some |-> TRUE, v |-> x]

NoCycle == [event |-> "none", outcome |-> "none", steps |-> <<>>,
            allocated |-> FALSE, physical_width |-> 0, physical_height |-> 0,
            stride |-> 0, size |-> 0, data_len |-> 0, mmap_len |-> 0,
            frame |-> 0, region |-> 0, wrote_awaiting |-> FALSE,
            wrote_handed_off |-> FALSE, old_size |-> 0, had_file |-> FALSE,
            slept |-> FALSE, logged |-> FALSE, missing |-> "none",
            burst |-> 0, cpu_text |-> 0]

\* One more protocol object alive.  No request of the source destroys a
\* wl_shm_pool or a wl_buffer, and dropping the handle sends none.
OneMore(n) == IF n < MaxLive THEN n + 1 ELSE MaxLive

-----------------------------------------------------------------------------
\* Variant: evicts as soon as the limit is reached (>= for >).
push_within_limit_eager(values, new_value, limit) ==
    LET pushed == <<new_value>> \o values
    IN  IF Len(pushed) >= limit
        THEN [values |-> SubSeq(pushed, 1, Len(pushed) - 1),
              ret |-> SomeValue(pushed[Len(pushed)])]
        ELSE [values |-> pushed, ret |-> NoValue]

\* Variant: at the limit the value handed back is the one just pushed.
push_within_limit_returns_new(values, new_value, limit) ==
    LET pushed == <<new_value>> \o values
    IN  IF Len(pushed) > limit
        THEN [values |-> SubSeq(pushed, 1, Len(pushed) - 1),
              ret |-> SomeValue(new_value)]
        ELSE [values |-> pushed, ret |-> NoValue]

(* push_within_limit: push_front, then pop_back when over the limit.       *)
(* Returns the new deque and the returned Option.                          *)
push_within_limit(values, new_value, limit) ==
    LET pushed == <<new_value>> \o values
    IN  IF Len(pushed) > limit
        THEN [values |-> SubSeq(pushed, 1, Len(pushed) - 1),
              ret |-> SomeValue(pushed[Len(pushed)])]
        ELSE [values |-> pushed, ret |-> NoValue]

(* The readings refresh_system takes from the host at its t-th call.  The  *)
(* host is the environment: each call reads a fresh value, here the call   *)
(* number, so that every sample is told apart from every other.            *)
CpuUsage(t) == t
ReadBytes(t) == t
WrittenBytes(t) == t

\* The whole state as one record, so that handlers compose like code.
Self ==
    [shm |-> shm, surface |-> surface, buffer_pool |-> buffer_pool,
     buffer_file |-> buffer_file, buffer_mmap |-> buffer_mmap,
     buffer_size |-> buffer_size, width |-> width, height |-> height,
     scale_factor |-> scale_factor, cpu_usage_points |-> cpu_usage_points,
     read_bytes_points |-> read_bytes_points,
     written_bytes_points |-> written_bytes_points, tick |-> tick,
     sampled |-> sampled, live_pools |-> live_pools,
     live_buffers |-> live_buffers,
     allocs |-> allocs, frame_callbacks |-> frame_callbacks,
     inbox |-> inbox, awaiting |-> awaiting, handed_off |-> handed_off, attached |-> attached,
     status |-> status, cycle |-> cycle]

Install(s) ==
    /\ shm' = s.shm
    /\ surface' = s.surface
    /\ buffer_pool' = s.buffer_pool
    /\ buffer_file' = s.buffer_file
    /\ buffer_mmap' = s.buffer_mmap
    /\ buffer_size' = s.buffer_size
    /\ width' = s.width
    /\ height' = s.height
    /\ scale_factor' = s.scale_factor
    /\ cpu_usage_points' = s.cpu_usage_points
    /\ read_bytes_points' = s.read_bytes_points
    /\ written_bytes_points' = s.written_bytes_points
    /\ tick' = s.tick
    /\ sampled' = s.sampled
    /\ allocs' = s.allocs
    /\ live_pools' = s.live_pools
    /\ live_buffers' = s.live_buffers
    /\ frame_callbacks' = s.frame_callbacks
    /\ inbox' = s.inbox
    /\ awaiting' = s.awaiting
    /\ handed_off' = s.handed_off
    /\ attached' = s.attached
    /\ status' = s.status
    /\ cycle' = s.cycle

\* Variant: the CPU history is pushed with the limit of the disk histories.
refresh_system_one_limit(s, fault) ==
    IF fault = "no_cpus"
    THEN [s EXCEPT !.status = "aborted"]
    ELSE LET t == s.tick + 1
         IN  [s EXCEPT
                !.tick = t,
                !.cpu_usage_points =
                    push_within_limit(@, CpuUsage(t), MAX_DISK_USAGE_POINTS).values,
                !.read_bytes_points =
                    push_within_limit(@, ReadBytes(t), MAX_DISK_USAGE_POINTS).values,
                !.written_bytes_points =
                    push_within_limit(@, WrittenBytes(t), MAX_DISK_USAGE_POINTS).values]

\* Variant: the readings are taken and nothing is pushed.
refresh_system_no_push(s, fault) ==
    IF fault = "no_cpus"
    THEN [s EXCEPT !.status = "aborted"]
    ELSE [s EXCEPT !.tick = s.tick + 1]

(* refresh_system: panics when the host lists no CPU, else pushes one      *)
(* sample into each history.                                               *)
refresh_system(s, fault) ==
    IF fault = "no_cpus"
    THEN [s EXCEPT !.status = "aborted"]
    ELSE LET t == s.tick + 1
         IN  [s EXCEPT
                !.tick = t,
                !.cpu_usage_points =
                    push_within_limit(@, CpuUsage(t), MAX_CPU_USAGE_POINTS).values,
                !.read_bytes_points =
                    push_within_limit(@, ReadBytes(t), MAX_DISK_USAGE_POINTS).values,
                !.written_bytes_points =
                    push_within_limit(@, WrittenBytes(t), MAX_DISK_USAGE_POINTS).values]

-----------------------------------------------------------------------------
(* App::render, statement by statement.  cycle.outcome is "running" while  *)
(* the call has neither returned nor panicked; a step of a call that has   *)
(* ended does nothing.  `fault` names the one thing the environment lets   *)
(* go wrong in this call, "none" when nothing does.                        *)

Faults == {"none", "no_cpus", "cairo", "draw", "no_root_disk",
           "no_boot_disk", "data", "temp_file", "set_len", "mmap"}

Running(s) == s.status = "running" /\ s.cycle.outcome = "running"

Log(s, step) == [s EXCEPT !.cycle.steps = Append(@, step)]

Fail(s) == [s EXCEPT !.cycle.outcome = "err"]

Panic(s) == [s EXCEPT !.cycle.outcome = "panic", !.status = "aborted"]

\* A panic for want of a host reading: panic!("CPUs cannot be empty"),
\* expect("must have root partition"), expect("must have boot partition")
PanicMissing(s, reading) == Panic([s EXCEPT !.cycle.missing = reading])

NewCycle(s, ev) ==
    [s EXCEPT !.cycle = [NoCycle EXCEPT !.event = ev, !.outcome = "running"]]

\* Variant: only the surface is looked at.
StepGuard_surface_only(s) ==
    IF ~s.surface
    THEN [s EXCEPT !.cycle.outcome = "skipped"]
    ELSE s

\* if self.surface.is_none() || self.shm.is_none() { return Ok(()) }
StepGuard(s) ==
    IF ~s.surface \/ ~s.shm
    THEN [s EXCEPT !.cycle.outcome = "skipped"]
    ELSE s

\* self.refresh_system()
StepSample(s, fault) ==
    IF ~Running(s) THEN s
    ELSE LET r == refresh_system(s, fault)
         IN  IF r.status = "aborted" THEN PanicMissing(r, "cpus")
             ELSE Log([r EXCEPT !.sampled = @ + 1], "sample")

\* ImageSurface::create(Format::ARgb32, w, h): 4 bytes per pixel, rows of
\* stride 4 * w, so data() is 4 * w * h bytes long.
CairoDataLen(w, h) == 4 * w * h

PhysicalWidth(s) == s.width * s.scale_factor
PhysicalHeight(s) == s.height * s.scale_factor

\* VecDeque::back(): the last element, the one pushed earliest
Back(values) == values[Len(values)]

\* Cairo surface and context, paint, draw_main, surface data.  draw_main
\* unwraps cpu_usage_points.back() for the text and the maxima of the two
\* disk histories.
StepDraw(s, fault) ==
    IF ~Running(s) THEN s
    ELSE IF fault \in {"cairo", "draw", "data"} THEN Fail(s)
    ELSE IF \/ Len(s.cpu_usage_points) = 0
            \/ Len(s.read_bytes_points) = 0
            \/ Len(s.written_bytes_points) = 0
         THEN PanicMissing(s, "history")
    ELSE IF fault = "no_root_disk" THEN PanicMissing(s, "/")
    ELSE IF fault = "no_boot_disk" THEN PanicMissing(s, "/boot/efi/")
    ELSE Log([s EXCEPT
                !.cycle.cpu_text = Back(s.cpu_usage_points),
                !.cycle.physical_width = PhysicalWidth(s),
                !.cycle.physical_height = PhysicalHeight(s),
                !.cycle.data_len = CairoDataLen(PhysicalWidth(s), PhysicalHeight(s)),
                !.cycle.frame = s.tick],
             "draw")

Stride(physical_width) == physical_width * 4
BufferBytes(stride, physical_height) == stride * physical_height

\* let stride = physical_width * 4; let size = (stride * physical_height) as usize;
StepSize(s) ==
    IF ~Running(s) THEN s
    ELSE [s EXCEPT
            !.cycle.stride = Stride(s.cycle.physical_width),
            !.cycle.size = BufferBytes(Stride(s.cycle.physical_width),
                                       s.cycle.physical_height)]

\* Variant: a new buffer for every call.
NeedNewBuffer_always(s, size) == TRUE

\* Variant: a new buffer only while there is none (the size is not compared).
NeedNewBuffer_missing_only(s, size) == ~s.buffer_file.some

\* if self.buffer_size != size || self.buffer_file.is_none()
NeedNewBuffer(s, size) == s.buffer_size # size \/ ~s.buffer_file.some

\* Variant: the file already held is resized and mapped again.
TempFile_in_place(s) == IF s.buffer_file.some THEN s.buffer_file.id ELSE s.allocs + 1

\* tempfile::NamedTempFile::new(): a file nothing else refers to
TempFile(s) == s.allocs + 1

\* Variant: buffer_size is not updated.
StoreBuffer_stale_size(s, id, size) ==
    [s EXCEPT
       !.buffer_file = [some |-> TRUE, id |-> id, len |-> size],
       !.buffer_mmap = [some |-> TRUE, id |-> id, len |-> size, data |-> 0],
       !.buffer_pool = [some |-> TRUE, id |-> id, size |-> size],
       !.live_pools = OneMore(@),
       !.allocs = @ + 1,
       !.cycle.allocated = TRUE]

\* "Store for reuse": the four assignments that end the block
StoreBuffer(s, id, size) ==
    [s EXCEPT
       !.buffer_file = [some |-> TRUE, id |-> id, len |-> size],
       !.buffer_mmap = [some |-> TRUE, id |-> id, len |-> size, data |-> 0],
       !.buffer_pool = [some |-> TRUE, id |-> id, size |-> size],
       !.live_pools = OneMore(@),
       !.buffer_size = size,
       !.allocs = @ + 1,
       !.cycle.allocated = TRUE]

\* Variant: the previous region is dropped before the new one is made.
StepEnsure_drop_first(s, fault) ==
    IF ~Running(s) THEN s
    ELSE LET size == s.cycle.size
             seen == [s EXCEPT !.cycle.old_size = s.buffer_size,
                               !.cycle.had_file = s.buffer_file.some]
             dropped == [seen EXCEPT !.buffer_file = NoFile,
                                     !.buffer_mmap = NoMmap,
                                     !.buffer_pool = NoPool,
                                     !.buffer_size = 0]
         IN  IF ~NeedNewBuffer(s, size) THEN seen
             ELSE IF fault \in {"temp_file", "set_len", "mmap"} THEN Fail(dropped)
             ELSE Log(StoreBuffer(dropped, TempFile(s), size), "allocate")

\* The block that creates, sizes and maps a new file, makes the pool and
\* stores them; each `?` returns before anything is stored.
StepEnsure(s, fault) ==
    IF ~Running(s) THEN s
    ELSE LET size == s.cycle.size
             seen == [s EXCEPT !.cycle.old_size = s.buffer_size,
                               !.cycle.had_file = s.buffer_file.some]
         IN  IF ~NeedNewBuffer(s, size) THEN seen
             ELSE IF fault \in {"temp_file", "set_len", "mmap"} THEN Fail(seen)
             ELSE Log(StoreBuffer(seen, TempFile(s), size), "allocate")

\* mmap.copy_from_slice(&data): panics unless the two lengths are equal
StepCopy(s) ==
    IF ~Running(s) THEN s
    ELSE LET mmap == s.buffer_mmap
             seen == [s EXCEPT !.cycle.mmap_len = mmap.len]
         IN  IF ~mmap.some \/ s.cycle.data_len # mmap.len
             THEN Panic(seen)
             ELSE Log([seen EXCEPT
                         !.buffer_mmap.data = s.cycle.frame,
                         !.cycle.region = mmap.id,
                         !.cycle.wrote_awaiting = mmap.id \in s.awaiting,
                         !.cycle.wrote_handed_off = mmap.id \in s.handed_off],
                      "copy")

\* pool.create_buffer(0, physical_width, physical_height, stride, ...)
StepCreateBuffer(s) ==
    IF ~Running(s) THEN s
    ELSE IF ~s.buffer_pool.some THEN Panic(s)
    ELSE Log([s EXCEPT !.live_buffers = OneMore(@)], "create_buffer")

\* surface.set_buffer_scale; surface.attach(Some(&buffer), 0, 0); surface.commit()
StepAttachCommit(s) ==
    IF ~Running(s) THEN s
    ELSE LET region == s.buffer_pool.id
         IN  Log(Log([s EXCEPT
                        !.attached = [some |-> TRUE, region |-> region,
                                      data |-> s.buffer_mmap.data,
                                      width |-> s.cycle.physical_width,
                                      height |-> s.cycle.physical_height,
                                      stride |-> s.cycle.stride,
                                      scale |-> s.scale_factor],
                        !.awaiting = @ \cup {region},
                        !.handed_off = @ \cup {region}],
                     "attach"),
                 "commit")

\* Ok(())
StepFinish(s) ==
    IF ~Running(s) THEN s ELSE [s EXCEPT !.cycle.outcome = "ok"]

\* Variant: the buffer is created, attached and committed before the copy.
render_commit_first(s, ev, fault) ==
    StepFinish(
      StepCopy(
        StepAttachCommit(
          StepCreateBuffer(
            StepEnsure(
              StepSize(
                StepDraw(
                  StepSample(StepGuard(NewCycle(s, ev)), fault),
                  fault)),
              fault)))))

render(s, ev, fault) ==
    StepFinish(
      StepAttachCommit(
        StepCreateBuffer(
          StepCopy(
            StepEnsure(
              StepSize(
                StepDraw(
                  StepSample(StepGuard(NewCycle(s, ev)), fault),
                  fault)),
              fault)))))

\* let _callback = surface.frame(qhandle, ()) when the surface is there
RegisterFrame(s) ==
    IF s.surface THEN [s EXCEPT !.frame_callbacks = @ + 1] ELSE s

-----------------------------------------------------------------------------
(* The event handlers *)

\* error!("... render error: {}", e): what a handler does with the Err of
\* render
LogError(s) ==
    IF s.cycle.outcome = "err" THEN [s EXCEPT !.cycle.logged = TRUE] ELSE s

\* Variant: the Err of render is unwrapped.
ConfigureHandler_unwrap(s, w, h, fault) ==
    LET sized == [s EXCEPT !.width = w, !.height = h]
        drawn == render(sized, "Configure", fault)
    IN  IF drawn.status = "aborted" THEN drawn
        ELSE IF drawn.cycle.outcome = "err"
        THEN [drawn EXCEPT !.status = "aborted"]
        ELSE RegisterFrame(drawn)

\* Variant: render is called before the new width and height are stored.
ConfigureHandler_render_first(s, w, h, fault) ==
    LET drawn == LogError(render(s, "Configure", fault))
        sized == [drawn EXCEPT !.width = w, !.height = h]
    IN  IF drawn.status = "aborted" THEN drawn ELSE RegisterFrame(sized)

\* zwlr_layer_surface_v1::Event::Configure { serial, width, height }
ConfigureHandler(s, w, h, fault) ==
    LET sized == [s EXCEPT !.width = w, !.height = h]
        drawn == LogError(render(sized, "Configure", fault))
    IN  IF drawn.status = "aborted" THEN drawn ELSE RegisterFrame(drawn)

\* The Done event a dispatch hands to the handler: one that waits in the
\* queue, else the one a registered callback sends now.
Receive(s) ==
    IF s.inbox > 0
    THEN [s EXCEPT !.inbox = @ - 1]
    ELSE [s EXCEPT !.frame_callbacks = @ - 1, !.awaiting = {}]

\* thread::sleep(RENDER_INTERVAL): the thread is blocked; `burst` of the
\* callbacks still registered fire meanwhile and their Done events wait in
\* the queue of the connection.
Sleep(s, burst) ==
    [s EXCEPT !.cycle.slept = TRUE,
              !.cycle.burst = burst,
              !.frame_callbacks = @ - burst,
              !.inbox = @ + burst,
              !.awaiting = IF burst > 0 THEN {} ELSE @]

\* Variant: no callback is registered after a render that returned Err.
DoneHandler_no_rearm_on_error(s, fault, burst) ==
    LET drawn == LogError(render(Receive(s), "Done", fault))
    IN  IF drawn.status = "aborted" THEN drawn
        ELSE IF drawn.cycle.outcome = "err" THEN Sleep(drawn, burst)
        ELSE RegisterFrame(Sleep(drawn, burst))

\* Variant: the callback is registered at once after a render that
\* returned Ok, with no sleep.
DoneHandler_no_sleep(s, fault, burst) ==
    LET drawn == LogError(render(Receive(s), "Done", fault))
    IN  IF drawn.status = "aborted" THEN drawn
        ELSE IF drawn.cycle.outcome = "ok" THEN RegisterFrame(drawn)
        ELSE RegisterFrame(Sleep(drawn, burst))

\* wl_callback::Event::Done: the compositor's frame-done notification
DoneHandler(s, fault, burst) ==
    LET drawn == LogError(render(Receive(s), "Done", fault))
    IN  IF drawn.status = "aborted" THEN drawn
        ELSE RegisterFrame(Sleep(drawn, burst))

\* Variant: a scale change draws at once.
ScaleHandler_renders(s, factor) ==
    render([s EXCEPT !.scale_factor = factor], "Scale", "none")

\* wl_output::Event::Scale { factor }
ScaleHandler(s, factor) == [s EXCEPT !.scale_factor = factor]

ConfigureWith(w, h, fault, maxTicks, maxCallbacks) ==
    /\ status = "running"
    /\ tick < maxTicks
    /\ frame_callbacks + inbox < maxCallbacks
    /\ Install(ConfigureHandler(Self, w, h, fault))
    /\ UNCHANGED <<harness, formatted>>

\* A Done event is dispatched when one waits in the queue or a registered
\* callback fires; at most the callbacks left registered fire during the
\* sleep.
DoneWith(fault, burst, maxTicks) ==
    /\ status = "running"
    /\ tick < maxTicks
    /\ frame_callbacks + inbox > 0
    /\ burst <= Receive(Self).frame_callbacks
    /\ Install(DoneHandler(Self, fault, burst))
    /\ UNCHANGED <<harness, formatted>>

Configure ==
    \E w \in 1..MaxDim, h \in 1..MaxDim, fault \in Faults :
        /\ w + h <= MaxDim + 1
        /\ ConfigureWith(w, h, fault, MaxTicks, MaxCallbacks)

Done ==
    \E fault \in Faults, burst \in 0..MaxCallbacks :
        DoneWith(fault, burst, MaxTicks)

Scale ==
    /\ status = "running"
    /\ \E factor \in 1..MaxScale : Install(ScaleHandler(Self, factor))
    /\ UNCHANGED <<harness, formatted>>

-----------------------------------------------------------------------------
(* format_bytes.  A u64 is held as Limbs digits to the base 1024, least    *)
(* significant first, so that no number of the model leaves 32 bits: the   *)
(* value is the sum of n[i] * 1024^(i-1), and n[Limbs] <= TopLimb.  A      *)
(* String is held as a record: "654.0GB" is whole 654, tenth 0, decimal    *)
(* TRUE, unit "GB"; "43B" is whole 43, decimal FALSE, unit "B".            *)

Base == 1024
LimbBits == 10
Limbs == 7
TopLimb == 15
Thousand == 1000
\* an f64 has 53 significant bits
MantissaBits == 53

UNITS == <<"kB", "MB", "GB", "TB", "PB">>

Zero == [i \in 1..Limbs |-> 0]

NoText == [whole |-> 0, tenth |-> 0, decimal |-> FALSE, unit |-> ""]

RECURSIVE Pow2(_)
Pow2(e) == IF e = 0 THEN 1 ELSE 2 * Pow2(e - 1)

RECURSIVE BitLen(_)
BitLen(x) == IF x = 0 THEN 0 ELSE 1 + BitLen(x \div 2)

\* the number of significant bits of n
Bits(n) ==
    LET used == {i \in 1..Limbs : n[i] # 0}
        top == CHOOSE i \in used : \A j \in used : j <= i
    IN  IF used = {} THEN 0 ELSE LimbBits * (top - 1) + BitLen(n[top])

\* carries from digit i upwards; the top digit keeps what it is given
RECURSIVE Carry(_, _)
Carry(n, i) ==
    IF i = Limbs THEN n
    ELSE Carry([n EXCEPT ![i] = n[i] % Base,
                         ![i + 1] = n[i + 1] + n[i] \div Base], i + 1)

\* bytes as f64: the nearest number of 53 significant bits, ties to the
\* even one.  At most 11 bits are dropped, all of them in the two lowest
\* digits.
as_f64(bytes) ==
    LET drop == Bits(bytes) - MantissaBits
    IN  IF drop <= 0 THEN bytes
        ELSE LET low == bytes[2] * Base + bytes[1]
                 ulp == Pow2(drop)
                 q == low \div ulp
                 r == low % ulp
                 up == 2 * r > ulp \/ (2 * r = ulp /\ q % 2 = 1)
                 kept == (IF up THEN q + 1 ELSE q) * ulp
             IN  Carry([bytes EXCEPT ![1] = kept % Base,
                                     ![2] = kept \div Base], 1)

\* val < 1000. where val is n / 1024^k (bytes < 1000 when k = 0)
LessThanThousand(n, k) ==
    /\ n[k + 1] < Thousand
    /\ \A i \in (k + 2)..Limbs : n[i] = 0

\* the integer part of n / 1024^k, from digit i upwards
RECURSIVE Whole(_, _)
Whole(n, i) == IF i > Limbs THEN 0 ELSE n[i] + Base * Whole(n, i + 1)

\* ten times the fraction of n / 1024^k: the digit before the point and
\* what is left after it, digits 1..k
RECURSIVE TimesTen(_, _, _, _)
TimesTen(n, k, i, acc) ==
    IF i > k THEN acc
    ELSE LET t == n[i] * 10 + acc.digit
         IN  TimesTen(n, k, i + 1,
                      [digit |-> t \div Base,
                       rest |-> [acc.rest EXCEPT ![i] = t % Base]])

\* format!("{val:.1}{unit}") for val = n / 1024^k, k >= 1: the decimal
\* expansion is exact and is rounded to one place, a tie to the even digit
OneDecimal(n, k, unit) ==
    LET ten == TimesTen(n, k, 1, [digit |-> 0, rest |-> Zero])
        half == Base \div 2
        above == \/ ten.rest[k] > half
                 \/ ten.rest[k] = half /\ \E i \in 1..(k - 1) : ten.rest[i] # 0
        tie == ten.rest[k] = half /\ \A i \in 1..(k - 1) : ten.rest[i] = 0
        up == above \/ (tie /\ ten.digit % 2 = 1)
        tenth == IF up THEN ten.digit + 1 ELSE ten.digit
        whole == Whole(n, k + 1)
    IN  IF tenth = 10
        THEN [whole |-> whole + 1, tenth |-> 0, decimal |-> TRUE, unit |-> unit]
        ELSE [whole |-> whole, tenth |-> tenth, decimal |-> TRUE, unit |-> unit]

\* for unit in UNITS { val /= 1024.; if val < 1000. { return ... } }
\* format!("{val:.1}PB")
RECURSIVE Ladder(_, _)
Ladder(val, k) ==
    IF LessThanThousand(val, k) THEN OneDecimal(val, k, UNITS[k])
    ELSE IF k = Len(UNITS) THEN OneDecimal(val, k, "PB")
    ELSE Ladder(val, k + 1)

format_bytes(bytes) ==
    IF LessThanThousand(bytes, 0)
    THEN [whole |-> bytes[1], tenth |-> 0, decimal |-> FALSE, unit |-> "B"]
    ELSE Ladder(as_f64(bytes), 1)

NoFormatted == [bytes |-> Zero, text |-> NoText, done |-> FALSE]

-----------------------------------------------------------------------------
(* App::new, then main up to the dispatch loop: the surface exists (main   *)
(* returns otherwise), wl_shm is bound if the compositor advertises it.    *)

NoHarness == [limit |-> 0, values |-> <<>>, pushed |-> <<>>, ret |-> NoValue]

\* let mut this = App { .. }
AppFields(has_shm) ==
    [shm |-> has_shm, surface |-> TRUE, buffer_pool |-> NoPool,
     buffer_file |-> NoFile, buffer_mmap |-> NoMmap, buffer_size |-> 0,
     width |-> 0, height |-> 0, scale_factor |-> 1,
     cpu_usage_points |-> <<>>, read_bytes_points |-> <<>>,
     written_bytes_points |-> <<>>, tick |-> 0, sampled |-> 0, allocs |-> 0,
     live_pools |-> 0, live_buffers |-> 0,
     frame_callbacks |-> 0, inbox |-> 0, awaiting |-> {},
     handed_off |-> {},
     attached |-> NoBuffer, status |-> "running", cycle |-> NoCycle]

\* Variant: App::new takes no sample.
AppNew_no_sample(has_shm) == AppFields(has_shm)

\* this.refresh_system(); this
AppNew(has_shm) == refresh_system(AppFields(has_shm), "none")

AppInit ==
    \E has_shm \in BOOLEAN :
        LET s == AppNew(has_shm)
        IN  /\ shm = s.shm
            /\ surface = s.surface
            /\ buffer_pool = s.buffer_pool
            /\ buffer_file = s.buffer_file
            /\ buffer_mmap = s.buffer_mmap
            /\ buffer_size = s.buffer_size
            /\ width = s.width
            /\ height = s.height
            /\ scale_factor = s.scale_factor
            /\ cpu_usage_points = s.cpu_usage_points
            /\ read_bytes_points = s.read_bytes_points
            /\ written_bytes_points = s.written_bytes_points
            /\ tick = s.tick
            /\ sampled = s.sampled
            /\ allocs = s.allocs
            /\ live_pools = s.live_pools
            /\ live_buffers = s.live_buffers
            /\ frame_callbacks = s.frame_callbacks
            /\ inbox = s.inbox
            /\ awaiting = s.awaiting
            /\ handed_off = s.handed_off
            /\ attached = s.attached
            /\ status = s.status
            /\ cycle = s.cycle

Init == AppInit /\ harness = NoHarness /\ formatted = NoFormatted

Next == Configure \/ Done \/ Scale

Spec == Init /\ [][Next]_vars

-----------------------------------------------------------------------------
(* The long run: one surface size, every fault, enough render cycles to    *)
(* fill the longest history and go past it.                                *)

SteadyConfigure ==
    \E fault \in Faults :
        ConfigureWith(MaxDim, MaxDim, fault, MaxSteadyTicks,
                      MaxSteadyCallbacks)

\* the callbacks fire one at a time, none during a sleep
SteadyDone == \E fault \in Faults : DoneWith(fault, 0, MaxSteadyTicks)

SteadyNext == SteadyConfigure \/ SteadyDone

SteadySpec == Init /\ [][SteadyNext]_vars

-----------------------------------------------------------------------------
(* Bursts: one surface size and nothing failing, with enough Configure     *)
(* events for several callbacks to be registered at once and to fire       *)
(* together while the Done handler sleeps.                                 *)

BurstConfigure ==
    ConfigureWith(MaxDim, MaxDim, "none", MaxBurstTicks, MaxBurstCallbacks)

BurstDone ==
    \E burst \in 0..MaxBurstCallbacks : DoneWith("none", burst, MaxBurstTicks)

BurstNext == BurstConfigure \/ BurstDone \/ Scale

BurstSpec == Init /\ [][BurstNext]_vars

-----------------------------------------------------------------------------
(* push_within_limit alone: a deque that starts empty, a capacity, and     *)
(* pushes of arbitrary values; `pushed` keeps every value pushed so far,   *)
(* oldest first.  At the capacity of the disk histories the values pushed  *)
(* are the push numbers.                                                   *)

appvars == <<shm, surface, buffer_pool, buffer_file, buffer_mmap, buffer_size,
             width, height, scale_factor, cpu_usage_points, read_bytes_points,
             written_bytes_points, tick, sampled, allocs, live_pools,
          live_buffers, frame_callbacks, inbox,
             awaiting, handed_off, attached, status, cycle>>

HistInit ==
    /\ AppInit
    /\ \E c \in (1..MaxLimit) \cup {MAX_DISK_USAGE_POINTS} :
         harness = [NoHarness EXCEPT !.limit = c]
    /\ formatted = NoFormatted

HistPushValue(v) ==
    LET r == push_within_limit(harness.values, v, harness.limit)
    IN  /\ harness' = [limit |-> harness.limit, values |-> r.values,
                       pushed |-> Append(harness.pushed, v), ret |-> r.ret]
        /\ UNCHANGED <<appvars, formatted>>

HistPush ==
    /\ harness.limit <= MaxLimit
    /\ Len(harness.pushed) < MaxPushes
    /\ \E v \in 0..MaxValue : HistPushValue(v)

HistPushLong ==
    /\ harness.limit > MaxLimit
    /\ Len(harness.pushed) < ScenarioPushes
    /\ HistPushValue(Len(harness.pushed) + 1)

HistNext == HistPush \/ HistPushLong

HistSpec == HistInit /\ [][HistNext]_vars

-----------------------------------------------------------------------------
(* format_bytes alone: a byte count is drawn, then formatted.              *)

\* digits within MaxOffset of x
Near(x) == {y \in 0..(Base - 1) : x - MaxOffset <= y /\ y <= x + MaxOffset}

\* the arguments of tests::test_format_bytes
TestInputs ==
    {<<0, 0, 0, 0, 0, 0, 0>>, <<43, 0, 0, 0, 0, 0, 0>>,
     <<999, 0, 0, 0, 0, 0, 0>>, <<1000, 0, 0, 0, 0, 0, 0>>,
     <<52, 1, 0, 0, 0, 0, 0>>, <<1022, 1023, 0, 0, 0, 0, 0>>,
     <<2, 0, 1, 0, 0, 0, 0>>, <<204, 307, 15, 0, 0, 0, 0>>,
     <<0, 0, 0, 654, 0, 0, 0>>,
     <<876, 461, 689, 156, 245, 923, 0>>,
     <<190, 302, 951, 304, 792, 311, 1>>}

\* byte counts around the unit switches (a digit 999 or 1000 below zeros),
\* around the switches of the printed decimal (0.05 is 51, 204, 819, 204,
\* 819, ... to the base 1024), and on both sides of 2^53 (8 PB)
GridInputs ==
    {<<d1, d2, d3, d4, d5, d6, d7>> :
        d1 \in Near(0) \cup Near(819) \cup Near(999) \cup Near(1023),
        d2 \in {0, 204, 999},
        d3 \in {0, 819, 1000},
        d4 \in {0, 204, 999},
        d5 \in {0, 51, 1000},
        d6 \in {0, 8, 999, 1000},
        d7 \in {0, 1, TopLimb}}

FormatInputs == TestInputs \cup GridInputs

FormatInit ==
    /\ AppInit
    /\ harness = NoHarness
    /\ \E n \in FormatInputs :
         formatted = [bytes |-> n, text |-> NoText, done |-> FALSE]

FormatBytes ==
    /\ ~formatted.done
    /\ formatted' = [bytes |-> formatted.bytes,
                     text |-> format_bytes(formatted.bytes),
                     done |-> TRUE]
    /\ UNCHANGED <<appvars, harness>>

FormatNext == FormatBytes

FormatSpec == FormatInit /\ [][FormatNext]_vars

-----------------------------------------------------------------------------
(* Properties *)

Min(a, b) == IF a < b THEN a ELSE b

Steps(c) == {c.steps[i] : i \in DOMAIN c.steps}

Count(seq, x) == Cardinality({i \in DOMAIN seq : seq[i] = x})

\* The steps of a call of render that ran to its end, with and without a
\* new backing region.
FullCycle == <<"sample", "draw", "copy", "create_buffer", "attach", "commit">>
FullCycleAlloc ==
    <<"sample", "draw", "allocate", "copy", "create_buffer", "attach", "commit">>

\* C1: a render never copies pixels into a region that was attached and
\* committed with no frame-done notification received since that commit.
C1_WriteOnlyAfterConsumed == ~cycle.wrote_awaiting

\* C2 as stated: every render that copies pixels has allocated a fresh region
\* first and never copies into a region that was already handed off, cycles
\* at unchanged dimensions included.
C2_FreshRegionForEveryWrite ==
    "copy" \in Steps(cycle) => cycle.allocated /\ ~cycle.wrote_handed_off

\* C2 amended: a render whose required size differs from the recorded
\* buffer_size (or that finds no region) allocates a fresh, never handed-off
\* region before the copy and copies into it; a render copies into a region
\* already handed off only when the required size is unchanged, and then it
\* allocates nothing.
C2_FreshRegionOnResize ==
    "copy" \in Steps(cycle) =>
        /\ (cycle.old_size # cycle.size \/ ~cycle.had_file) =>
               /\ cycle.allocated
               /\ ~cycle.wrote_handed_off
               /\ cycle.region = allocs
        /\ cycle.wrote_handed_off =>
               /\ cycle.old_size = cycle.size
               /\ cycle.had_file
               /\ ~cycle.allocated

\* A resize: the region handed off earlier is left alone, a fresh one is
\* written.
C2_Witness ==
    /\ "copy" \in Steps(cycle)
    /\ cycle.had_file
    /\ cycle.old_size # cycle.size
    /\ cycle.allocated
    /\ cycle.region = 2
    /\ 1 \in handed_off

\* C3 as stated: the second render cycle (the one that takes the third
\* sample, App::new having taken the first) begins only on a frame-done
\* notification.
C3_SecondCycleOnlyAfterDone ==
    ("sample" \in Steps(cycle) /\ tick = 3) => cycle.event = "Done"

\* C3 amended: a render cycle begins only in the handler of a Configure event
\* or of a frame-done notification (which needs a callback registered
\* before), the first one in the handler of the initial Configure; every
\* Configure event received with wl_shm bound runs exactly one cycle; a cycle
\* samples once and draws, attaches and commits at most once, and handlers
\* run one after the other, so at most one cycle is in flight.
C3_OneCyclePerConfigureOrDone ==
    [][/\ tick' # tick =>
            /\ tick' = tick + 1
            /\ cycle'.event \in {"Configure", "Done"}
            /\ cycle'.event = "Done" => frame_callbacks + inbox > 0
            /\ tick = 1 => cycle'.event = "Configure"
            /\ Count(cycle'.steps, "sample") = 1
            /\ Count(cycle'.steps, "draw") <= 1
            /\ Count(cycle'.steps, "attach") <= 1
            /\ Count(cycle'.steps, "commit") <= 1
       /\ (width' # width /\ shm /\ status' = "running") => tick' = tick + 1
      ]_vars

\* Two Configure events and no frame-done notification: two cycles.
C3_Witness ==
    /\ tick = 3
    /\ cycle.event = "Configure"
    /\ cycle.outcome = "ok"
    /\ frame_callbacks = 2

\* C4: a render that returns an error leaves buffer_file, buffer_mmap,
\* buffer_pool and buffer_size as they were; they change only together, in a
\* render that has created, sized and mapped the new file, and then all four
\* describe the new region of the required size.
C4_FailedAllocationKeepsBuffer ==
    [][/\ cycle'.outcome = "err" =>
            UNCHANGED <<buffer_file, buffer_mmap, buffer_pool, buffer_size>>
       /\ (\/ buffer_file' # buffer_file
           \/ buffer_mmap'.id # buffer_mmap.id
           \/ buffer_mmap'.len # buffer_mmap.len
           \/ buffer_pool' # buffer_pool
           \/ buffer_size' # buffer_size) =>
            /\ cycle'.allocated
            /\ cycle'.outcome = "ok"
            /\ buffer_file' = [some |-> TRUE, id |-> allocs', len |-> cycle'.size]
            /\ buffer_mmap'.some
            /\ buffer_mmap'.id = allocs'
            /\ buffer_mmap'.len = cycle'.size
            /\ buffer_pool' = [some |-> TRUE, id |-> allocs', size |-> cycle'.size]
            /\ buffer_size' = cycle'.size
            /\ allocs' = allocs + 1
      ]_vars

\* A resize whose allocation failed: the region of the old size is still
\* the one held.
C4_Witness ==
    /\ cycle.outcome = "err"
    /\ cycle.steps = <<"sample", "draw">>
    /\ cycle.had_file
    /\ cycle.old_size # cycle.size
    /\ buffer_file.some
    /\ buffer_size = cycle.old_size
    /\ buffer_mmap.len = cycle.old_size

\* C5: a render cycle installs at most one region, and only when no region
\* exists or the required size differs from buffer_size; a cycle that has
\* drawn goes into the allocation (and installs the region, or returns the
\* error of the allocation) exactly in that case, so a cycle that succeeds
\* installs one exactly in that case; a successful render that follows a
\* successful render of the same physical size installs none.
C5_AllocatesIffSizeChanged ==
    [][tick' # tick =>
         LET need == buffer_size # cycle'.size \/ ~buffer_file.some
         IN  /\ allocs' \in {allocs, allocs + 1}
             /\ allocs' # allocs => need /\ "draw" \in Steps(cycle')
             /\ "draw" \in Steps(cycle') =>
                    (need <=> (allocs' = allocs + 1 \/ cycle'.outcome = "err"))
             /\ cycle'.outcome = "ok" => (allocs' = allocs + 1 <=> need)
             /\ (/\ cycle.outcome = "ok"
                 /\ cycle'.outcome = "ok"
                 /\ cycle'.physical_width = cycle.physical_width
                 /\ cycle'.physical_height = cycle.physical_height)
                  => allocs' = allocs
      ]_vars

\* Three successful renders, one allocation.
C5_Witness ==
    /\ tick = 4
    /\ cycle.outcome = "ok"
    /\ ~cycle.allocated
    /\ allocs = 1
    /\ attached.data = 4

\* C6: file, mapping and pool are present together or not at all, they are
\* one region whose file length, mapping length and pool size equal
\* buffer_size, and after a successful render buffer_size is stride times
\* physical height with stride 4 * physical width, the physical size being
\* the logical size times the scale factor; the buffer created at offset 0
\* ends inside the pool.
C6_RegionSizeInvariant ==
    /\ buffer_file.some = buffer_mmap.some
    /\ buffer_file.some = buffer_pool.some
    /\ ~buffer_file.some => buffer_size = 0
    /\ buffer_file.some =>
           /\ buffer_mmap.id = buffer_file.id
           /\ buffer_pool.id = buffer_file.id
           /\ buffer_file.len = buffer_size
           /\ buffer_mmap.len = buffer_size
           /\ buffer_pool.size = buffer_size
    /\ cycle.outcome = "ok" =>
           /\ cycle.physical_width = width * attached.scale
           /\ cycle.physical_height = height * attached.scale
           /\ cycle.stride = cycle.physical_width * 4
           /\ buffer_size = cycle.stride * cycle.physical_height
           /\ attached.width = cycle.physical_width
           /\ attached.height = cycle.physical_height
           /\ attached.stride = cycle.stride
           /\ attached.stride * attached.height <= buffer_pool.size

\* A successful render at a scale factor above 1 that replaced a region.
C6_Witness ==
    /\ cycle.outcome = "ok"
    /\ cycle.allocated
    /\ cycle.had_file
    /\ attached.scale > 1
    /\ buffer_size = 4 * width * attached.scale * height * attached.scale

\* C7: a render that succeeds has gone through sample, draw, (allocate,)
\* copy, create buffer, attach, commit in this order; a commit is the last
\* step of its call and comes after the copy; what the commit hands over is
\* the frame drawn in this call and the region is not written afterwards.
C7_CopyBeforeCommit ==
    /\ \A i \in DOMAIN cycle.steps :
           cycle.steps[i] \in {"attach", "commit"} =>
               /\ \E j \in 1..(i - 1) : cycle.steps[j] = "copy"
               /\ \A j \in (i + 1)..Len(cycle.steps) : cycle.steps[j] = "commit"
    /\ cycle.outcome = "ok" =>
           /\ cycle.steps \in {FullCycle, FullCycleAlloc}
           /\ attached.data = cycle.frame
           /\ cycle.frame = tick
           /\ attached.region = cycle.region
           /\ buffer_mmap.id = cycle.region
           /\ buffer_mmap.data = attached.data

\* A frame copied into the region of the frame before and then committed.
C7_Witness ==
    /\ cycle.outcome = "ok"
    /\ cycle.steps = FullCycle
    /\ cycle.wrote_handed_off
    /\ attached.data = tick
    /\ tick > 2

\* C8: whenever a render reaches the copy, the drawn data and the mapping
\* have the same length; the program aborts at the copy exactly on a
\* mismatch, and nothing is attached or committed in that call.
C8_CopyLengthsEqual ==
    /\ cycle.mmap_len # 0 => cycle.data_len = cycle.mmap_len
    /\ "copy" \in Steps(cycle) =>
           /\ cycle.data_len = cycle.mmap_len
           /\ cycle.data_len = buffer_mmap.len
    /\ (cycle.mmap_len # 0 /\ cycle.data_len # cycle.mmap_len) =>
           /\ status = "aborted"
           /\ "commit" \notin Steps(cycle)

\* A copy after the size has changed twice.
C8_Witness ==
    /\ "copy" \in Steps(cycle)
    /\ allocs >= 3
    /\ cycle.data_len = cycle.mmap_len
    /\ cycle.data_len = CairoDataLen(width * scale_factor, height * scale_factor)

\* C9: after n pushes into an empty deque with limit c >= 1 the deque holds
\* the last min(n, c) values pushed, newest first; after ScenarioPushes
\* pushes at limit 150 it holds 150 values, the oldest ones evicted.
C9_KeepsLastPushed ==
    LET n == Len(harness.pushed)
        k == Min(n, harness.limit)
    IN  /\ Len(harness.values) = k
        /\ \A i \in 1..k : harness.values[i] = harness.pushed[n - i + 1]
        /\ (harness.limit = MAX_DISK_USAGE_POINTS /\ n = ScenarioPushes) =>
               /\ Len(harness.values) = MAX_DISK_USAGE_POINTS
               /\ harness.values[1] = ScenarioPushes
               /\ harness.values[MAX_DISK_USAGE_POINTS]
                      = ScenarioPushes - MAX_DISK_USAGE_POINTS + 1

\* ScenarioPushes values pushed at limit 150.
C9_Witness ==
    /\ harness.limit = MAX_DISK_USAGE_POINTS
    /\ Len(harness.pushed) = ScenarioPushes
    /\ Len(harness.values) = MAX_DISK_USAGE_POINTS
    /\ harness.ret.some

\* C10: the CPU history never holds more than 50 samples, the two disk
\* histories never more than 150 each; each is pushed with the same limit
\* every time, so its length is the number of samples taken, capped by it.
C10_HistoryLengths ==
    /\ Len(cpu_usage_points) <= MAX_CPU_USAGE_POINTS
    /\ Len(read_bytes_points) <= MAX_DISK_USAGE_POINTS
    /\ Len(written_bytes_points) <= MAX_DISK_USAGE_POINTS
    /\ Len(cpu_usage_points) = Min(tick, MAX_CPU_USAGE_POINTS)
    /\ Len(read_bytes_points) = Min(tick, MAX_DISK_USAGE_POINTS)
    /\ Len(written_bytes_points) = Min(tick, MAX_DISK_USAGE_POINTS)

\* More samples taken than the longest history holds.
C10_Witness ==
    /\ tick > MAX_DISK_USAGE_POINTS + 1
    /\ Len(cpu_usage_points) = MAX_CPU_USAGE_POINTS
    /\ Len(read_bytes_points) = MAX_DISK_USAGE_POINTS
    /\ Len(written_bytes_points) = MAX_DISK_USAGE_POINTS

\* C11: a push returns Some(x) exactly when the deque already held `limit`
\* elements; x is then the oldest element held, the one pushed earliest
\* among those retained, and the length stays at the limit.  Otherwise the
\* push returns None and the length grows by exactly one.
C11_ReturnsEvicted ==
    [][LET old == harness.values
           n == Len(harness.pushed)
       IN  harness'.pushed # harness.pushed =>
             /\ harness'.ret.some <=> Len(old) = harness.limit
             /\ harness'.ret.some =>
                   /\ harness'.ret.v = old[Len(old)]
                   /\ harness'.ret.v = harness.pushed[n - harness.limit + 1]
                   /\ Len(harness'.values) = harness.limit
                   /\ Len(harness'.values) = Len(old)
             /\ ~harness'.ret.some =>
                   /\ harness'.ret = NoValue
                   /\ Len(harness'.values) = Len(old) + 1]_vars

\* A push at the limit handed back the oldest value, which differs from
\* the value just pushed.
C11_Witness ==
    /\ harness.limit = 2
    /\ Len(harness.pushed) = 4
    /\ harness.ret.some
    /\ harness.ret.v = harness.pushed[2]
    /\ harness.ret.v # harness.values[1]

\* C12: when render returns an error in the Done handler or in the Configure
\* handler, the error is logged, render is called once only (one sample
\* taken), and the handler registers exactly one new frame callback (the
\* Configure handler adds one to those outstanding, the Done handler replaces
\* the one it consumed), so a callback is registered when the handler
\* returns and the process is still running.
C12_ErrorLoggedAndCallbackRearmed ==
    [][(tick' # tick /\ cycle'.outcome = "err") =>
          /\ cycle'.logged
          /\ tick' = tick + 1
          /\ Count(cycle'.steps, "sample") = 1
          /\ cycle'.event \in {"Configure", "Done"}
          /\ frame_callbacks' + inbox' = frame_callbacks + inbox
                 + (IF cycle'.event = "Configure" THEN 1 ELSE 0)
          /\ frame_callbacks' >= 1
          /\ status' = "running"]_vars

\* A Done handler whose render failed has returned, and one callback is
\* registered again.
C12_Witness ==
    /\ cycle.event = "Done"
    /\ cycle.outcome = "err"
    /\ cycle.logged
    /\ frame_callbacks = 1
    /\ inbox = 0
    /\ status = "running"

\* C13: Done events that arrive in a burst during the sleep of the Done
\* handler are coalesced: when k > 1 of them arrived during one sleep, the
\* one render cycle they start leaves none of them queued to start another
\* (here the following cycle is a Done cycle during whose own sleep nothing
\* arrived).
C13_BurstStartsOneCycle ==
    [][(/\ cycle.slept
        /\ cycle.burst > 1
        /\ tick' = tick + 1
        /\ cycle'.event = "Done"
        /\ cycle'.burst = 0) => inbox' = 0]_vars

\* C14 as stated: after every render cycle that put a frame on the surface,
\* whether a Configure or a Done event started it, the handler has slept
\* RENDER_INTERVAL before it returns with the next callback registered.
C14_DelayAfterEveryCycle ==
    ("commit" \in Steps(cycle) /\ status = "running") => cycle.slept

\* C14, amended: the delay is taken after the cycles a Done event starts
\* and only after those.  The Done handler sleeps after render returns,
\* whatever render returned, and registers the next callback after the
\* sleep, so that callback is still registered when the handler returns;
\* the Configure handler registers its callback with no delay.
C14_DelayAfterDoneCycleOnly ==
    /\ (cycle.event = "Done" /\ status = "running") =>
           /\ cycle.slept
           /\ frame_callbacks >= 1
    /\ cycle.event = "Configure" =>
           /\ ~cycle.slept
           /\ cycle.burst = 0
    /\ (cycle.event = "Configure" /\ status = "running") =>
           frame_callbacks + inbox >= 1

\* A Done cycle that committed a frame and slept, after a Configure cycle.
C14_Witness ==
    /\ cycle.event = "Done"
    /\ cycle.outcome = "ok"
    /\ cycle.slept
    /\ tick = 3
    /\ frame_callbacks = 1

\* C15 as stated: an output scale change starts a render cycle by itself.
C15_ScaleChangeStartsCycle ==
    [][(scale_factor' # scale_factor /\ shm /\ surface) =>
          tick' = tick + 1]_vars

\* C15, amended: a Configure event (the first one or a change of size) and
\* a Done event each start a render cycle when wl_shm and the surface are
\* there; a Scale event only stores the factor: it starts no cycle, touches
\* neither the buffer nor the surface nor the callbacks, and the factor is
\* used by the cycle the next Configure or Done event starts.
C15_ScaleOnlyStored ==
    [][/\ scale_factor' # scale_factor =>
             /\ tick' = tick
             /\ cycle' = cycle
             /\ attached' = attached
             /\ buffer_size' = buffer_size
             /\ buffer_mmap' = buffer_mmap
             /\ frame_callbacks' = frame_callbacks
             /\ inbox' = inbox
       /\ (scale_factor' = scale_factor /\ shm /\ surface) =>
             /\ cycle'.event \in {"Configure", "Done"}
             /\ tick' = tick + 1 \/ cycle'.missing = "cpus"
       /\ (tick' = tick + 1 /\ "draw" \in Steps(cycle')) =>
             /\ cycle'.physical_width = width' * scale_factor
             /\ cycle'.physical_height = height' * scale_factor]_vars

\* The factor has changed and the frame on the surface still has the old
\* one.
C15_Witness ==
    /\ scale_factor = 2
    /\ attached.some
    /\ attached.scale = 1
    /\ cycle.outcome = "ok"
    /\ status = "running"

\* C16: a render call that returns an error (Cairo surface or context,
\* drawing, surface data, temp file, set_len or mmap) is abandoned with no
\* frame: it creates, attaches and commits no buffer, what the surface shows
\* and the regions handed to the compositor are as before, the handler logs
\* the error and the process keeps running.
C16_FailedCycleAbandoned ==
    [][(tick' # tick /\ cycle'.outcome = "err") =>
          /\ Steps(cycle') \cap {"copy", "create_buffer", "attach", "commit"} = {}
          /\ attached' = attached
          /\ handed_off' = handed_off
          /\ awaiting' \subseteq awaiting
          /\ cycle'.logged
          /\ status' = "running"]_vars

\* A Configure cycle failed while an earlier frame stays attached.
C16_Witness ==
    /\ cycle.event = "Configure"
    /\ cycle.outcome = "err"
    /\ cycle.logged
    /\ attached.some
    /\ attached.data < tick
    /\ status = "running"

\* C17: a render cycle never aborts the process for want of telemetry: with
\* no CPU listed, or "/" or "/boot/efi/" not mounted, the process keeps
\* running.
C17_MissingTelemetryNeverAborts ==
    cycle.missing \in {"cpus", "/", "/boot/efi/"} => status = "running"

\* C20: a render cycle uses the width and height stored by the most recent
\* Configure event (the one being handled when a Configure event starts the
\* cycle) and the scale factor stored by the most recent Scale event; no
\* geometry changes inside a cycle: the size of the Cairo surface, the
\* stride and size of the backing region and the buffer created and
\* attached are all derived from that one width, height and scale.
C20_OneGeometryPerCycle ==
    [][tick' = tick + 1 =>
          /\ scale_factor' = scale_factor
          /\ cycle'.event = "Done" => (width' = width /\ height' = height)
          /\ "draw" \in Steps(cycle') =>
                /\ cycle'.physical_width = width' * scale_factor
                /\ cycle'.physical_height = height' * scale_factor
                /\ cycle'.data_len = 4 * cycle'.physical_width
                                       * cycle'.physical_height
                /\ cycle'.stride = 4 * cycle'.physical_width
                /\ cycle'.size = cycle'.stride * cycle'.physical_height
          /\ cycle'.outcome = "ok" =>
                /\ attached'.width = width' * scale_factor
                /\ attached'.height = height' * scale_factor
                /\ attached'.stride = 4 * attached'.width
                /\ attached'.scale = scale_factor
                /\ buffer_size' = attached'.stride * attached'.height]_vars

\* A Done cycle drew, at the scale a Scale event had set, the width and
\* height of the last Configure event.
C20_Witness ==
    /\ cycle.event = "Done"
    /\ cycle.outcome = "ok"
    /\ width = 2
    /\ height = 1
    /\ scale_factor = 2
    /\ attached.width = 4
    /\ attached.height = 2
    /\ attached.scale = 2
    /\ tick = 4

\* The reference of C18: below 1000 the integer followed by B; else
\* n / 1024^k to one decimal place with the k-th unit, k the least of 1..5
\* with n / 1024^k < 1000, and 5 when there is none.
RECURSIVE ReferenceUnit(_, _)
ReferenceUnit(n, k) ==
    IF k = Len(UNITS) \/ LessThanThousand(n, k) THEN k
    ELSE ReferenceUnit(n, k + 1)

Reference(n) ==
    IF LessThanThousand(n, 0)
    THEN [whole |-> n[1], tenth |-> 0, decimal |-> FALSE, unit |-> "B"]
    ELSE OneDecimal(n, ReferenceUnit(n, 1), UNITS[ReferenceUnit(n, 1)])

\* C18: for every 64-bit byte count n, format_bytes(n) equals the
\* reference.
C18_EqualsReference ==
    formatted.done => formatted.text = Reference(formatted.bytes)

\* C21 as stated: the histories are empty at startup and the number of
\* samples pushed into each equals the number of render cycles that have
\* sampled (each history holds that many, up to its limit).
C21_OneSamplePerCycleFromEmpty ==
    /\ Len(cpu_usage_points) = Min(sampled, MAX_CPU_USAGE_POINTS)
    /\ Len(read_bytes_points) = Min(sampled, MAX_DISK_USAGE_POINTS)
    /\ Len(written_bytes_points) = Min(sampled, MAX_DISK_USAGE_POINTS)

\* C21, amended: App::new takes one sample, so each history holds one
\* element before the first render cycle; every render cycle that samples
\* pushes exactly one more into each, and none is ever cleared: the number
\* of samples pushed is one more than the number of cycles that have
\* sampled, the newest of them is at the front, and each history holds the
\* newest of them up to its limit.
C21_OneSamplePerCycleAfterFirst ==
    /\ tick = sampled + 1
    /\ Len(cpu_usage_points) = Min(sampled + 1, MAX_CPU_USAGE_POINTS)
    /\ Len(read_bytes_points) = Min(sampled + 1, MAX_DISK_USAGE_POINTS)
    /\ Len(written_bytes_points) = Min(sampled + 1, MAX_DISK_USAGE_POINTS)
    /\ \A i \in DOMAIN cpu_usage_points :
           cpu_usage_points[i] = CpuUsage(sampled + 2 - i)
    /\ \A i \in DOMAIN read_bytes_points :
           read_bytes_points[i] = ReadBytes(sampled + 2 - i)
    /\ \A i \in DOMAIN written_bytes_points :
           written_bytes_points[i] = WrittenBytes(sampled + 2 - i)
    /\ (cycle.event = "none") =>
           (sampled = 0 /\ Len(cpu_usage_points) = 1)

\* Sixty render cycles have sampled: the CPU history is full, the disk
\* histories hold sixty-one samples.
C21_Witness ==
    /\ sampled = MAX_CPU_USAGE_POINTS + 10
    /\ Len(cpu_usage_points) = MAX_CPU_USAGE_POINTS
    /\ Len(read_bytes_points) = sampled + 1
    /\ Len(written_bytes_points) = sampled + 1

\* C22: at most one frame callback is registered and not yet fired at any
\* time, whatever the sequence of Configure and Done events.
C22_AtMostOneCallback ==
    frame_callbacks <= 1

\* C23: presentation-side objects do not accumulate: the buffer object of a
\* cycle and a replaced pool are destroyed before or when a later one takes
\* its place, so when a handler returns at most one pool and one buffer
\* object are alive.
C23_ObjectsDoNotAccumulate ==
    /\ live_buffers <= 1
    /\ live_pools <= 1

\* C24: whenever the draw step runs, each of the three histories holds at
\* least one sample: no render call panics on an unwrap of an empty history,
\* and a call that has drawn found the sample of its own cycle in each.
C24_HistoriesNonEmptyAtDraw ==
    /\ cycle.missing # "history"
    /\ Len(cpu_usage_points) >= 1
    /\ Len(read_bytes_points) >= 1
    /\ Len(written_bytes_points) >= 1
    /\ "draw" \in Steps(cycle) =>
           /\ CpuUsage(cycle.frame) \in
                  {cpu_usage_points[i] : i \in DOMAIN cpu_usage_points}
           /\ ReadBytes(cycle.frame) \in
                  {read_bytes_points[i] : i \in DOMAIN read_bytes_points}
           /\ WrittenBytes(cycle.frame) \in
                  {written_bytes_points[i] : i \in DOMAIN written_bytes_points}

\* The first render cycle has drawn, with two samples in each history.
C24_Witness ==
    /\ "draw" \in Steps(cycle)
    /\ sampled = 1
    /\ Len(cpu_usage_points) = 2
    /\ Len(read_bytes_points) = 2
    /\ Len(written_bytes_points) = 2

\* C25: the CPU percentage drawn as text in a frame is the most recent CPU
\* sample, the one pushed by the sampling step of the same render cycle.
C25_TextIsNewestSample ==
    "draw" \in Steps(cycle) => cycle.cpu_text = CpuUsage(cycle.frame)

\* C26: render called while the surface or wl_shm is missing returns
\* success without effect: every call is skipped at the guard, no sample is
\* pushed, no region is allocated, no buffer is created, attached or
\* committed, and buffer_file, buffer_mmap, buffer_pool and buffer_size
\* stay as App::new left them.
C26_SkippedRenderHasNoEffect ==
    (~surface \/ ~shm) =>
        /\ cycle.event # "none" =>
               (cycle.outcome = "skipped" /\ cycle.steps = <<>>)
        /\ status = "running"
        /\ sampled = 0
        /\ tick = 1
        /\ Len(cpu_usage_points) = 1
        /\ Len(read_bytes_points) = 1
        /\ Len(written_bytes_points) = 1
        /\ allocs = 0
        /\ live_pools = 0
        /\ live_buffers = 0
        /\ buffer_file = NoFile
        /\ buffer_mmap = NoMmap
        /\ buffer_pool = NoPool
        /\ buffer_size = 0
        /\ attached = NoBuffer
        /\ handed_off = {}

\* Without wl_shm, a Configure and a Done handler have called render and
\* returned.
C26_Witness ==
    /\ ~shm
    /\ cycle.event = "Done"
    /\ cycle.outcome = "skipped"
    /\ cycle.slept
    /\ width > 0
    /\ frame_callbacks = 1

\* C27: for every byte count n with 1000 <= n < 1000 * 1024^5 the number
\* format_bytes prints is below 1000.0.
C27_PrintedBelowThousand ==
    (/\ formatted.done
     /\ ~LessThanThousand(formatted.bytes, 0)
     /\ LessThanThousand(formatted.bytes, Len(UNITS))) =>
        formatted.text.whole < Thousand

====
